---------------------------- MODULE Spec2Model ----------------------------
(***************************************************************************)
(* State-machine model of the MLX90640 thermal frame acquisition engine    *)
(* (duosight::MLX90640Reader): status polling (waitForNewFrame), subpage   *)
(* capture (readSubPage), the two-subpage acquisition (readFrame), the     *)
(* chess merge (combineChessTemperatures) and the refresh-rate table.      *)
(*                                                                         *)
(* The program is single threaded.  One action is one step of readFrame    *)
(* from one bus transaction up to (not including) the next one, so that    *)
(* the order of the bus transactions is visible in the behaviours.  The    *)
(* bus and the sensor are the environment: every transaction may fail and  *)
(* every status read may return any word of StatusWords.                   *)
(***************************************************************************)
EXTENDS Integers, Sequences, FiniteSets, TLC

\* ------------------------------------------------------------------ bounds
\* Polling::MAX_RETRIES is 150 in MLX90640Regs.hpp; the model runs the same
\* loops with a small retry budget (the loops are uniform in it).
MAX_RETRIES == 3

\* --------------------------------------------------------- program constants
WIDTH == 32
HEIGHT == 24
PIXELS == WIDTH * HEIGHT
RAM_WORDS == 832
\* Geometry::WORDS: the RAM window plus the two trailing words readSubPage
\* writes at PIXELS + 64 and PIXELS + 65
WORDS == RAM_WORDS + 2
NEW_DATA_READY == 8
OVERRUN == 16

\* index of the auxiliary RAM word the calibration stub derives Ta from
TA_WORD == PIXELS + 32

\* status & mask, for a one-bit mask
HasBit(word, mask) == (word \div mask) % 2 = 1

\* status & 0x07
Low3(word) == word % 8

\* -------------------------------------------------------------- environment
\* Status words the sensor may present: not ready (sub 0/1), ready with
\* subpage 0/1, ready with a reserved subpage code (2), ready with the overrun
\* bit.
StatusWords == {0, 1, 8, 9, 10, 24}
StatusWordSpace == 0 .. 65535

\* Control-register snapshots (0x1901: chess mode, refresh code 2).
CtrlWords == {6401}
CtrlWordSpace == 0 .. 65535

\* float: a finite value or NaN
Finite(x) == [fin |-> TRUE, val |-> x]
NaN == [fin |-> FALSE, val |-> 0]

\* What the sensor RAM window holds at a burst read: the pixel words and the
\* auxiliary word the ambient temperature is derived from (0: not finite).
Scenes == { [pix |-> "uniform", aux |-> 20],
            [pix |-> "uniform", aux |-> 22],
            [pix |-> "ramp",    aux |-> 0] }

RamWord(scene, i) ==
    IF i < PIXELS
    THEN (IF scene.pix = "uniform" THEN 100 ELSE 100 + (i % 7))
    ELSE IF i = TA_WORD THEN scene.aux ELSE 0

\* std::vector<float> as a function on 0 .. size-1
EmptyVec == [i \in {} |-> 0]
VecSize(v) == Cardinality(DOMAIN v)
CallerFrames == { EmptyVec, [i \in 0 .. 1 |-> 7] }

\* ------------------------------------------------- vendor calibration (stub)
\* MLX90640_GetTa: opaque pure function of the raw buffer; the stub reads the
\* ambient from one auxiliary word, 0 standing for a non-finite result.
MLX90640_GetTa(raw) == IF raw[TA_WORD] = 0 THEN NaN ELSE Finite(raw[TA_WORD])

\* MLX90640_CalculateTo: opaque pure per-pixel conversion of a raw buffer at
\* a (finite) ambient; the stub converts raw value 100 at ambient 21 to
\* temperature 30 and follows the ambient one for one.
MLX90640_CalculateTo(raw, ta) ==
    [i \in 0 .. PIXELS - 1 |-> raw[i] - 91 + ta.val]

isfinite(x) == x.fin

\* ------------------------------------------------------------ pure functions
\* Mutant of DecodeStatus: the subpage code is masked with 0x03, not 0x07.
DecodeStatus_Mask3(status) ==
    LET ready == HasBit(status, NEW_DATA_READY)
        lsb3  == status % 4
    IN  [ ready   |-> ready,
          subpage |-> IF ready /\ (lsb3 = 0 \/ lsb3 = 1) THEN lsb3 ELSE -1,
          invalid |-> ready /\ ~(lsb3 = 0 \/ lsb3 = 1),
          overrun |-> ready /\ (lsb3 = 0 \/ lsb3 = 1) /\ HasBit(status, OVERRUN) ]

\* The status decoding done inline in waitForNewFrame.
DecodeStatus(status) ==
    LET ready == HasBit(status, NEW_DATA_READY)
        lsb3  == Low3(status)
    IN  [ ready   |-> ready,
          subpage |-> IF ready /\ (lsb3 = 0 \/ lsb3 = 1) THEN lsb3 ELSE -1,
          invalid |-> ready /\ ~(lsb3 = 0 \/ lsb3 = 1),
          overrun |-> ready /\ (lsb3 = 0 \/ lsb3 = 1) /\ HasBit(status, OVERRUN) ]

\* Mutant of WaitStep: a ready status does not return, the loop goes on.
WaitStep_ReadyKeepsPolling(ok, status) ==
    IF ~ok THEN "fatal"
    ELSE IF HasBit(status, NEW_DATA_READY) /\ Low3(status) > 1 THEN "fatal"
    ELSE "again"

\* Mutant of WaitStep: a ready status with the overrun bit is a failure.
WaitStep_OverrunFatal(ok, status) ==
    IF ~ok THEN "fatal"
    ELSE LET d == DecodeStatus(status)
         IN  IF d.ready
             THEN (IF d.invalid \/ HasBit(status, OVERRUN) THEN "fatal"
                   ELSE "ready")
             ELSE "again"

\* One pass of the body of waitForNewFrame's loop, given the outcome of
\* bus_->readRegister16: "ready" (return true), "fatal" (return false) or
\* "again" (usleep and loop).
WaitStep(ok, status) ==
    IF ~ok THEN "fatal"
    ELSE LET d == DecodeStatus(status)
         IN  IF d.ready THEN (IF d.invalid THEN "fatal" ELSE "ready")
             ELSE "again"

\* Mutant of AfterWait: the subpage found is not compared with the one sought.
AfterWait_AcceptAny(gotIt, sub, seek) ==
    IF ~gotIt THEN "clr_timeout" ELSE "cap_status"

\* readFrame after its retry loop: timeout, wrong subpage, or capture.
AfterWait(gotIt, sub, seek) ==
    IF ~gotIt THEN "clr_timeout"
    ELSE IF sub # seek THEN "clr_mismatch"
    ELSE "cap_status"

\* Mutant of SubpageGuard: only the validity of the subpage code is checked.
SubpageGuard_ValidOnly(status, expectedSubpage) ==
    LET sp == Low3(status) IN sp = 0 \/ sp = 1

\* readSubPage's check of the latched status: TRUE when the capture goes on.
\* Mutant of SubpageGuard: the latched status is not checked at all.
SubpageGuard_Unchecked(status, expectedSubpage) == TRUE

SubpageGuard(status, expectedSubpage) ==
    LET sp == Low3(status)
    IN  /\ (sp = 0 \/ sp = 1)
        /\ ~((expectedSubpage = 0 \/ expectedSubpage = 1) /\ sp # expectedSubpage)

\* Mutant of combineChessTemperatures: even pixels taken from subpage 1.
combineChess_Swapped(toA, toB, subpageA, subpageB) ==
    [idx \in 0 .. PIXELS - 1 |->
        LET parity == ((idx \div WIDTH) + (idx % WIDTH)) % 2
        IN  IF parity = 0
            THEN (IF subpageA = 1 THEN toA[idx] ELSE toB[idx])
            ELSE (IF subpageA = 0 THEN toA[idx] ELSE toB[idx])]

\* Mutant of combineChessTemperatures: row and column taken modulo HEIGHT.
combineChess_RowByHeight(toA, toB, subpageA, subpageB) ==
    [idx \in 0 .. PIXELS - 1 |->
        LET parity == ((idx \div HEIGHT) + (idx % HEIGHT)) % 2
        IN  IF parity = 0
            THEN (IF subpageA = 0 THEN toA[idx] ELSE toB[idx])
            ELSE (IF subpageA = 1 THEN toA[idx] ELSE toB[idx])]

\* Mutant of combineChessTemperatures: odd pixels always taken from toB.
combineChess_OddFromB(toA, toB, subpageA, subpageB) ==
    [idx \in 0 .. PIXELS - 1 |->
        LET parity == ((idx \div WIDTH) + (idx % WIDTH)) % 2
        IN  IF parity = 0
            THEN (IF subpageA = 0 THEN toA[idx] ELSE toB[idx])
            ELSE toB[idx]]

\* frameData after combineChessTemperatures (it always returns true).
combineChessTemperatures(toA, toB, subpageA, subpageB) ==
    [idx \in 0 .. PIXELS - 1 |->
        LET row    == idx \div WIDTH
            col    == idx % WIDTH
            parity == (row + col) % 2
        IN  IF parity = 0
            THEN (IF subpageA = 0 THEN toA[idx] ELSE toB[idx])
            ELSE (IF subpageA = 1 THEN toA[idx] ELSE toB[idx])]

\* bool readFrame(std::vector<float>&): the values a call can return.
ReturnType == BOOLEAN

\* combineChessTemperatures' return value: true on every path (line 277).
combineChessOk(toA, toB, subpageA, subpageB) == TRUE

\* raw[PIXELS + 64]: the bit of the latched status readSubPage appends.
TailWord(status_first) == status_first % 2

\* A float constant of the source that is a ratio of two integers.
Frac(n, d) == [n |-> n, d |-> d]
FracEq(x, y) == x.n * y.d = y.n * x.d

\* refresh::TABLE, entry k + 1 for refresh code k.
TABLE ==
    << [hz_full_frame |-> Frac(1, 2),  sec_subpage |-> Frac(1, 1)],
       [hz_full_frame |-> Frac(1, 1),  sec_subpage |-> Frac(1, 2)],
       [hz_full_frame |-> Frac(2, 1),  sec_subpage |-> Frac(1, 4)],
       [hz_full_frame |-> Frac(4, 1),  sec_subpage |-> Frac(1, 8)],
       [hz_full_frame |-> Frac(8, 1),  sec_subpage |-> Frac(1, 16)],
       [hz_full_frame |-> Frac(16, 1), sec_subpage |-> Frac(1, 32)],
       [hz_full_frame |-> Frac(32, 1), sec_subpage |-> Frac(1, 64)],
       [hz_full_frame |-> Frac(64, 1), sec_subpage |-> Frac(1, 128)] >>

\* static const float lut[8] in initialize, entry k + 1 for refresh code k.
lut == << Frac(1, 2), Frac(1, 1), Frac(2, 1), Frac(4, 1),
          Frac(8, 1), Frac(16, 1), Frac(32, 1), Frac(64, 1) >>

\* Mutant of RefreshCode: four bits are kept, (ctrl >> 7) & 0x0F.
RefreshCode_Mask4(ctrl) == (ctrl \div 128) % 16

\* int rr = (ctrl >> 7) & 0x07 in initialize.
RefreshCode(ctrl) == (ctrl \div 128) % 8

\* refresh::SHIFT and refresh::MASK of MLX90640Reader.hpp: the refresh field
\* of CTRL1 as the header places it.
SHIFT == 5
MASK == 7 * (2 ^ SHIFT)

\* The control word after the refresh code c has been written into the field
\* MASK / SHIFT by read-modify-write: (ctrl & ~MASK) | ((c << SHIFT) & MASK).
SetRefreshField(ctrl, c) ==
    LET unit  == 2 ^ SHIFT
        width == (MASK \div unit) + 1
        old   == (ctrl \div unit) % width
    IN  (ctrl - old * unit) + (c % width) * unit

\* float hz = (rr >= 0 && rr < 8) ? lut[rr] : -1.0f in initialize.
RefreshHz(rr) == IF rr >= 0 /\ rr < 8 THEN lut[rr + 1] ELSE Frac(-1, 1)

\* Mutant of CombineTa: two finite readings are not averaged, the first is
\* used.
CombineTa_NoAverage(TaA, TaB) ==
    IF isfinite(TaA) THEN TaA
    ELSE IF isfinite(TaB) THEN TaB
    ELSE NaN

\* Ta as readFrame combines the two ambient readings; 0.5f * (TaA + TaB) is
\* exact on the readings of Scenes (their sums are even).
CombineTa(TaA, TaB) ==
    IF isfinite(TaA) /\ isfinite(TaB) THEN Finite((TaA.val + TaB.val) \div 2)
    ELSE IF isfinite(TaA) THEN TaA
    ELSE IF isfinite(TaB) THEN TaB
    ELSE NaN

\* -------------------------------------------------------------------- state
VARIABLES
    busOpen,      \* bus_->isOpen()
    g_dev,        \* the bus the process-wide transport handle points to
    busDst,       \* the bus each transaction of the call was issued on
    pc,           \* position of the caller / of readFrame
    seekFrame,    \* readFrame: subpage being waited for
    subFrame,     \* readFrame: subpage reported by waitForNewFrame
    got,          \* readFrame: the retry loop got a subpage
    tries,        \* readFrame: retry loop counter
    wtries,       \* waitForNewFrame: loop counter
    pollOk,       \* waitForNewFrame: outcome of the last readRegister16
    status,       \* waitForNewFrame: last status word read
    status_first, \* readSubPage: status latched at entry
    fA, fB,       \* readFrame: raw buffers of the two captures
    Ta,           \* readFrame: ambient used for the conversion
    frameIn,      \* the caller's vector as passed in
    frameData,    \* the caller's vector
    result,       \* value returned by the last readFrame
    busLog,       \* bus transactions issued by the current readFrame
    exitPath,     \* the return statement the last readFrame left by
    waitPolls,    \* status polls of the current subpage wait
    cleanBefore,  \* every poll of the current wait before the last one
                  \* succeeded and was not ready
    mToA, mToB, mA, mB, mOut, mDone,  \* merge harness: inputs, output, done
    mOutSwap,     \* merge harness: output of the call with A and B exchanged
    mRet,         \* merge harness: value combineChessTemperatures returned
    dStatus, dOut,              \* decoder harness: input and output
    dOver,        \* decoder harness: outcomes of the word and of the word
                  \* with the overrun bit flipped
    rCtrl, rOut,  \* refresh harness: control word and what is made of it
    bDev, bCall,  \* bus harness: an I2cDevice and the last call made on it
    wIn, wOut,    \* wire harness: register and value, and what is made of them
    sReady, sSub, \* sensor: newDataReady flag and subpage last published
    sSeen,        \* sensor: the flag now raised has been read by the engine
    sErased       \* sensor: a raised flag was cleared before it was read

engineVars == << busOpen, g_dev, busDst, pc, seekFrame, subFrame, got, tries, wtries, pollOk,
                 status, status_first, fA, fB, Ta, frameIn, frameData, result,
                 busLog, exitPath, waitPolls, cleanBefore >>

mergeVars == << mToA, mToB, mA, mB, mOut, mDone, mOutSwap, mRet >>
decodeVars == << dStatus, dOut, dOver >>
refreshVars == << rCtrl, rOut >>

busVars == << bDev, bCall, wIn, wOut >>

harnessVars == << mergeVars, decodeVars, refreshVars, busVars >>

sensorVars == << sReady, sSub, sSeen, sErased >>

vars == << engineVars, harnessVars, sensorVars >>

\* The bus the reader was constructed with, and another bus of the process.
ReaderBus == "bus"
Buses == {"bus", "other"}

\* Where a transaction goes: bus_->readRegister16 uses the reader's own
\* handle, MLX90640_I2CRead / MLX90640_I2CWrite use the process-wide g_dev.
ViaBus(dev) == ReaderBus
ViaTransport(dev) == dev

ZeroBuf == [i \in 0 .. WORDS - 1 |-> 0]
NoBuf == << >>

Count(log, tag) == Cardinality({ k \in 1 .. Len(log) : log[k] = tag })
nPolls == Count(busLog, "poll")
nBursts == Count(busLog, "ram_burst")

IdleLocals ==
    /\ g_dev = ReaderBus /\ busDst = << >>
    /\ pc = "idle" /\ seekFrame = 0 /\ subFrame = -1 /\ got = FALSE
    /\ tries = 0 /\ wtries = 0 /\ pollOk = TRUE /\ status = 0
    /\ status_first = 0 /\ fA = NoBuf /\ fB = NoBuf /\ Ta = NaN
    /\ frameIn = EmptyVec /\ frameData = EmptyVec /\ result = FALSE
    /\ busLog = << >> /\ exitPath = "none" /\ waitPolls = 0 /\ cleanBefore = TRUE

NotDecoded == [ready |-> FALSE, subpage |-> -1, invalid |-> FALSE,
               overrun |-> FALSE, step |-> "none"]

MergeIdle ==
    /\ mToA = EmptyVec /\ mToB = EmptyVec /\ mA = 0 /\ mB = 0
    /\ mOut = EmptyVec /\ mDone = FALSE
    /\ mOutSwap = EmptyVec /\ mRet = FALSE

NoOutcome == [poll |-> "none", subpage |-> -1, cap |-> << >>, tail |-> 0]

DecodeIdle ==
    /\ dStatus = 0 /\ dOut = NotDecoded
    /\ dOver = [a |-> NoOutcome, b |-> NoOutcome]

NotRefreshed == [code |-> -1, hz |-> Frac(-1, 1), done |-> FALSE]

RefreshIdle == rCtrl = 0 /\ rOut = NotRefreshed

SensorIdle ==
    sReady = FALSE /\ sSub = 0 /\ sSeen = FALSE /\ sErased = FALSE

\* No I2cDevice constructed, no call made, nothing put on the wire.
NoDevice == [fd |-> -1, kopen |-> 0, how |-> "none"]
NoCall == [op |-> "none"]
NoWire == [reg |-> 0, val |-> 0]
NotWired == [done |-> FALSE]

BusIdle == bDev = NoDevice /\ bCall = NoCall /\ wIn = NoWire /\ wOut = NotWired

HarnessIdle == MergeIdle /\ DecodeIdle /\ RefreshIdle /\ BusIdle

Init ==
    /\ busOpen \in BOOLEAN
    /\ IdleLocals
    /\ HarnessIdle
    /\ SensorIdle

\* ------------------------------------------------------------------ actions
\* Mutant of FrameStatusClear: readFrame leaves without writing to STATUS.
FrameStatusClear_Skipped(log) == log

\* (void)MLX90640_I2CWrite(address_, 0x8000, 0x0000) in readFrame: the write
\* is attempted and its outcome ignored.
FrameStatusClear(log) == Append(log, "frame_clear")

\* Mutant of BusNotOpen: the handle is never found closed.
BusNotOpen_Never(open) == FALSE

\* !bus_ || !bus_->isOpen() at the top of initialize and of readFrame (bus_
\* is never null: the constructor takes a reference).
BusNotOpen(open) == ~open

\* Mutant of CaptureNext: a failed step of readSubPage goes on to the status
\* clear.
CaptureNext_ClearOnFail(ok, next) == IF ok THEN next ELSE "cap_clear"

\* readSubPage after one of its reads: the next step, or return false.
CaptureNext(ok, next) == IF ok THEN next ELSE "clr_capfail"

\* The steps below are the steps of readFrame given the outcome of their bus
\* transaction; they say nothing of the variables outside the engine.

\* Locals of waitForNewFrame and of readFrame's retry loop, once the loop is
\* left (they are out of scope); the loop counters die with the loop.
WaitLocalsDead ==
    /\ tries' = 0 /\ wtries' = 0
    /\ pollOk' = TRUE /\ status' = 0
    /\ waitPolls' = 0 /\ cleanBefore' = TRUE

\* mlx90640_set_i2c_device(dev), called by the caller or by the constructor
\* of another MLX90640Reader, between two calls of this reader.
SetI2cDevice ==
    /\ pc \in {"idle", "returned", "init_returned"}
    /\ \E dev \in Buses : g_dev' = dev
    /\ g_dev' # g_dev
    /\ UNCHANGED << busOpen, busDst, pc, seekFrame, subFrame, got, tries,
                    wtries, pollOk, status, status_first, fA, fB, Ta, frameIn,
                    frameData, result, busLog, exitPath, waitPolls,
                    cleanBefore >>
    /\ UNCHANGED << harnessVars, sensorVars >>

\* initialize(), lines 40-126, as one step: the vendor calls are opaque, each
\* is one entry of the log.  fail is the step that fails, if any; a failed
\* SetChessMode, CTRL read or status read does not end initialize.
InitializeStep(fail) ==
    /\ pc = "idle"
    /\ LET full == << "ee_dump", "set_refresh", "set_chess", "init_ctrl_read",
                      "init_status_read", "init_clear", "init_status_read" >>
           cut  == CASE fail = "ee"      -> 1
                     [] fail = "extract" -> 1
                     [] fail = "refresh" -> 2
                     [] fail = "clear"   -> 6
                     [] OTHER            -> 7
       IN  IF BusNotOpen(busOpen)
           THEN /\ busLog' = << >>
                /\ busDst' = << >>
                /\ result' = FALSE
                /\ exitPath' = "init_closed"
           ELSE /\ busLog' = SubSeq(full, 1, cut)
                /\ busDst' = [i \in 1 .. cut |-> ViaTransport(g_dev)]
                /\ result' = (fail = "none")
                /\ exitPath' = IF fail = "none" THEN "init_ok" ELSE "init_failed"
    /\ pc' = "init_returned"
    /\ UNCHANGED << busOpen, g_dev, seekFrame, subFrame, got, tries, wtries,
                    pollOk, status, status_first, fA, fB, Ta, frameIn,
                    frameData, waitPolls, cleanBefore >>

InitializeCall ==
    /\ \E fail \in {"none", "ee", "extract", "refresh", "clear"} :
          InitializeStep(fail)
    /\ UNCHANGED << harnessVars, sensorVars >>

\* The caller invokes readFrame(frame): lines 282-300.
ReadFrameEntry(v) ==
    /\ pc \in {"idle", "returned", "init_returned"}
    /\ frameIn' = v
    /\ frameData' = v
    /\ seekFrame' = 0 /\ subFrame' = -1 /\ got' = FALSE
    /\ WaitLocalsDead
    /\ status_first' = 0 /\ Ta' = NaN
    /\ busLog' = << >>
    /\ busDst' = << >>
    /\ IF BusNotOpen(busOpen)
       THEN /\ fA' = NoBuf /\ fB' = NoBuf
            /\ pc' = "returned" /\ result' = FALSE /\ exitPath' = "closed"
       ELSE /\ fA' = ZeroBuf /\ fB' = ZeroBuf
            /\ pc' = "poll" /\ result' = FALSE /\ exitPath' = "none"
    /\ UNCHANGED << busOpen, g_dev >>

ReadFrameCall ==
    /\ \E v \in CallerFrames : ReadFrameEntry(v)
    /\ UNCHANGED << harnessVars, sensorVars >>

\* One status poll of waitForNewFrame (lines 131-172) inside readFrame's
\* retry loop (302-305 / 337-340), up to the next bus transaction.
PollStatusStep(ok, st) ==
    /\ pc = "poll"
    /\ LET step == WaitStep(ok, st)
           \* waitForNewFrame returns false: now, or by running out of tries
           wfail == step = "fatal" \/ (step = "again" /\ wtries + 1 >= MAX_RETRIES)
           \* readFrame's loop is exhausted
           lastTry == tries + 1 >= MAX_RETRIES
           sub2 == IF step = "ready" THEN DecodeStatus(st).subpage ELSE subFrame
       IN  /\ pollOk' = ok
           /\ status' = IF ok THEN st ELSE 0
           /\ busLog' = Append(busLog, "poll")
           /\ busDst' = Append(busDst, ViaBus(g_dev))
           /\ waitPolls' = waitPolls + 1
           /\ cleanBefore' = (cleanBefore /\ pollOk
                                /\ ~HasBit(status, NEW_DATA_READY))
           /\ subFrame' = sub2
           /\ got' = (step = "ready")
           /\ IF step = "ready"
              THEN /\ pc' = AfterWait(TRUE, sub2, seekFrame)
                   /\ tries' = 0 /\ wtries' = 0
              ELSE IF ~wfail
              THEN /\ wtries' = wtries + 1
                   /\ pc' = "poll"
                   /\ UNCHANGED tries
              ELSE IF ~lastTry
              THEN /\ tries' = tries + 1
                   /\ wtries' = 0
                   /\ pc' = "poll"
              ELSE /\ tries' = 0 /\ wtries' = 0
                   /\ pc' = AfterWait(FALSE, sub2, seekFrame)
    /\ UNCHANGED << busOpen, g_dev, seekFrame, status_first, fA, fB, Ta,
                    frameIn, frameData, result, exitPath >>

PollStatus ==
    /\ \E ok \in BOOLEAN, st \in StatusWords : PollStatusStep(ok, st)
    /\ UNCHANGED << harnessVars, sensorVars >>

\* (void)MLX90640_I2CWrite(0x8000, 0) and return false.
ClearAndReturnFalse(path) ==
    /\ busLog' = FrameStatusClear(busLog)
    /\ busDst' = Append(busDst, ViaTransport(g_dev))
    /\ result' = FALSE
    /\ exitPath' = path
    /\ pc' = "returned"
    /\ seekFrame' = 0 /\ subFrame' = -1 /\ got' = FALSE
    /\ status_first' = 0
    /\ fA' = NoBuf /\ fB' = NoBuf
    /\ WaitLocalsDead
    /\ UNCHANGED << busOpen, g_dev, Ta, frameIn, frameData >>

\* lines 308-312 / 343-347
TimeoutClear ==
    /\ pc = "clr_timeout" /\ ClearAndReturnFalse("timeout")
    /\ UNCHANGED << harnessVars, sensorVars >>

\* lines 315-319 / 350-354
MismatchClearStep == pc = "clr_mismatch" /\ ClearAndReturnFalse("mismatch")

MismatchClear == MismatchClearStep /\ UNCHANGED << harnessVars, sensorVars >>

\* lines 324-328 / 359-363
CaptureFailClear ==
    /\ pc = "clr_capfail" /\ ClearAndReturnFalse("capture")
    /\ UNCHANGED << harnessVars, sensorVars >>

capUnchanged == << busOpen, g_dev, seekFrame, subFrame, got, Ta, frameIn,
                   frameData, result, exitPath >>

\* readSubPage A: latch STATUS and check it (lines 180-198).
CapStatusReadStep(ok, st) ==
    /\ pc = "cap_status"
    /\ busLog' = Append(busLog, "cap_status")
    /\ busDst' = Append(busDst, ViaTransport(g_dev))
    /\ status_first' = IF ok THEN st ELSE 0
    /\ pc' = CaptureNext(ok /\ SubpageGuard(st, subFrame), "cap_ram")
    /\ WaitLocalsDead
    /\ UNCHANGED << fA, fB >>
    /\ UNCHANGED capUnchanged

CapStatusRead ==
    /\ \E ok \in BOOLEAN, st \in StatusWords : CapStatusReadStep(ok, st)
    /\ UNCHANGED << harnessVars, sensorVars >>

\* readSubPage B: RAM burst of 832 words into raw (lines 201-205).
CapRamBurstStep(ok, scene) ==
    /\ pc = "cap_ram"
    /\ busLog' = Append(busLog, "ram_burst")
    /\ busDst' = Append(busDst, ViaTransport(g_dev))
    /\ LET raw == IF seekFrame = 0 THEN fA ELSE fB
           filled == [i \in 0 .. WORDS - 1 |->
                        IF i < RAM_WORDS THEN RamWord(scene, i) ELSE raw[i]]
       IN  IF ok
           THEN /\ fA' = IF seekFrame = 0 THEN filled ELSE fA
                /\ fB' = IF seekFrame = 0 THEN fB ELSE filled
           ELSE UNCHANGED << fA, fB >>
    /\ pc' = CaptureNext(ok, "cap_ctrl")
    /\ UNCHANGED << status_first, tries, wtries, pollOk, status, waitPolls,
                    cleanBefore >>
    /\ UNCHANGED capUnchanged

CapRamBurst ==
    /\ \E ok \in BOOLEAN, scene \in Scenes : CapRamBurstStep(ok, scene)
    /\ UNCHANGED << harnessVars, sensorVars >>

\* readSubPage C: read CTRL1 and append the two trailing words (208-219).
CapCtrlReadStep(ok, ctrl1) ==
    /\ pc = "cap_ctrl"
    /\ busLog' = Append(busLog, "ctrl_read")
    /\ busDst' = Append(busDst, ViaTransport(g_dev))
    /\ LET raw == IF seekFrame = 0 THEN fA ELSE fB
           tail == [raw EXCEPT ![PIXELS + 64] = TailWord(status_first),
                               ![PIXELS + 65] = ctrl1]
       IN  IF ok
           THEN /\ fA' = IF seekFrame = 0 THEN tail ELSE fA
                /\ fB' = IF seekFrame = 0 THEN fB ELSE tail
           ELSE UNCHANGED << fA, fB >>
    /\ pc' = CaptureNext(ok, "cap_clear")
    /\ UNCHANGED << status_first, tries, wtries, pollOk, status, waitPolls,
                    cleanBefore >>
    /\ UNCHANGED capUnchanged

CapCtrlRead ==
    /\ \E ok \in BOOLEAN, ctrl1 \in CtrlWords : CapCtrlReadStep(ok, ctrl1)
    /\ UNCHANGED << harnessVars, sensorVars >>

\* readSubPage D: clear STATUS and return (lines 221-227).
CapStatusClearStep(ok) ==
    /\ pc = "cap_clear"
    /\ busLog' = Append(busLog, "cap_clear")
    /\ busDst' = Append(busDst, ViaTransport(g_dev))
    /\ pc' = IF ok THEN "post_clear" ELSE "clr_capfail"
    /\ UNCHANGED << status_first, fA, fB, tries, wtries, pollOk, status,
                    waitPolls, cleanBefore >>
    /\ UNCHANGED capUnchanged

CapStatusClear ==
    /\ \E ok \in BOOLEAN : CapStatusClearStep(ok)
    /\ UNCHANGED << harnessVars, sensorVars >>

\* First subpage captured: clear STATUS again and start the second wait
\* (lines 330-335).
FirstCapturedClearStep ==
    /\ pc = "post_clear" /\ seekFrame = 0
    /\ busLog' = FrameStatusClear(busLog)
    /\ busDst' = Append(busDst, ViaTransport(g_dev))
    /\ seekFrame' = 1
    /\ got' = FALSE
    /\ status_first' = 0
    /\ pc' = "poll"
    /\ UNCHANGED << busOpen, g_dev, subFrame, tries, wtries, pollOk, status,
                    waitPolls, cleanBefore, fA, fB, Ta, frameIn, frameData,
                    result, exitPath >>

FirstCapturedClear ==
    FirstCapturedClearStep /\ UNCHANGED << harnessVars, sensorVars >>

\* Second subpage captured: clear STATUS again, compute Ta, then either give
\* up on a non-finite Ta or convert both buffers and merge (lines 365-397).
SecondCapturedMergeStep ==
    /\ pc = "post_clear" /\ seekFrame = 1
    /\ busLog' = FrameStatusClear(busLog)
    /\ busDst' = Append(busDst, ViaTransport(g_dev))
    /\ LET TaA == MLX90640_GetTa(fA)
           TaB == MLX90640_GetTa(fB)
           ta  == CombineTa(TaA, TaB)
       IN  /\ Ta' = ta
           /\ IF ~isfinite(ta)
              THEN \* return false at line 382, before the conversions
                   /\ result' = FALSE
                   /\ exitPath' = "bad_ta"
                   /\ UNCHANGED frameData
              ELSE /\ frameData' = combineChessTemperatures(
                                      MLX90640_CalculateTo(fA, ta),
                                      MLX90640_CalculateTo(fB, ta), 0, 1)
                   /\ result' = TRUE
                   /\ exitPath' = "merge"
    /\ pc' = "returned"
    /\ seekFrame' = 0 /\ subFrame' = -1 /\ got' = FALSE
    /\ status_first' = 0
    /\ UNCHANGED << busOpen, g_dev, tries, wtries, pollOk, status, fA, fB,
                    frameIn, waitPolls, cleanBefore >>

SecondCapturedMerge ==
    SecondCapturedMergeStep /\ UNCHANGED << harnessVars, sensorVars >>

Next ==
    \/ SetI2cDevice
    \/ InitializeCall
    \/ ReadFrameCall
    \/ PollStatus
    \/ TimeoutClear
    \/ MismatchClear
    \/ CaptureFailClear
    \/ CapStatusRead
    \/ CapRamBurst
    \/ CapCtrlRead
    \/ CapStatusClear
    \/ FirstCapturedClear
    \/ SecondCapturedMerge

Spec == Init /\ [][Next]_vars

\* ------------------------------------------------- the merge as a function
Uniform(v) == [i \in 0 .. PIXELS - 1 |-> v]
Ramp(base) == [i \in 0 .. PIXELS - 1 |-> base + i]
Checker(v, w) ==
    [i \in 0 .. PIXELS - 1 |-> IF i % 2 = 0 THEN v ELSE w]
TestFrames == { Uniform(0), Uniform(30), Ramp(0), Ramp(1000),
                Checker(1, 2), Checker(-5, 40) }

\* Subpage arguments a caller can pass: the two subpages, the value of
\* subFrame before any poll (-1) and a reserved code.
SubpageArgs == {-1, 0, 1, 2}

InitMerge ==
    /\ busOpen = TRUE
    /\ IdleLocals /\ SensorIdle
    /\ DecodeIdle /\ RefreshIdle /\ BusIdle
    /\ mToA \in TestFrames /\ mToB \in TestFrames
    /\ mA \in SubpageArgs /\ mB \in SubpageArgs
    /\ mOut = EmptyVec /\ mDone = FALSE
    /\ mOutSwap = EmptyVec /\ mRet = FALSE

\* combineChessTemperatures(toA, toB, subpageA, subpageB, frameData), and the
\* same call with the two subframes and their subpages exchanged.
MergeStep ==
    /\ ~mDone
    /\ mOut' = combineChessTemperatures(mToA, mToB, mA, mB)
    /\ mRet' = combineChessOk(mToA, mToB, mA, mB)
    /\ mOutSwap' = combineChessTemperatures(mToB, mToA, mB, mA)
    /\ mDone' = TRUE
    /\ UNCHANGED << engineVars, sensorVars, decodeVars, refreshVars, busVars,
                    mToA, mToB, mA, mB >>

SpecMerge == InitMerge /\ [][MergeStep]_vars

\* ------------------------------------------ the status decode as a function
\* What polling and capturing make of one status word: the step of
\* waitForNewFrame, the subpage it reports, readSubPage's guard for either
\* expected subpage and the status word readSubPage appends to the buffer.
StatusOutcome(st) ==
    [ poll    |-> WaitStep(TRUE, st),
      subpage |-> IF WaitStep(TRUE, st) = "ready"
                  THEN DecodeStatus(st).subpage ELSE -1,
      cap     |-> [e \in {0, 1} |-> SubpageGuard(st, e)],
      tail    |-> TailWord(st) ]

\* The status word with bit 4 flipped.
FlipOverrun(st) == IF HasBit(st, OVERRUN) THEN st - OVERRUN ELSE st + OVERRUN

InitDecode ==
    /\ busOpen = TRUE
    /\ IdleLocals /\ SensorIdle
    /\ MergeIdle /\ RefreshIdle /\ BusIdle
    /\ dStatus \in StatusWordSpace
    /\ dOut = NotDecoded
    /\ dOver = [a |-> NoOutcome, b |-> NoOutcome]

\* What waitForNewFrame and readSubPage make of one status word read without
\* bus error, and of the word that differs from it in the overrun bit.
DecodeStep ==
    /\ dOut.step = "none"
    /\ LET d == DecodeStatus(dStatus)
       IN  dOut' = [ready |-> d.ready, subpage |-> d.subpage,
                    invalid |-> d.invalid, overrun |-> d.overrun,
                    step |-> WaitStep(TRUE, dStatus)]
    /\ dOver' = [a |-> StatusOutcome(dStatus),
                 b |-> StatusOutcome(FlipOverrun(dStatus))]
    /\ UNCHANGED << engineVars, sensorVars, mergeVars, refreshVars, busVars,
                    dStatus >>

SpecDecode == InitDecode /\ [][DecodeStep]_vars

\* --------------------------------------------- the refresh code of a CTRL word
InitRefresh ==
    /\ busOpen = TRUE
    /\ IdleLocals /\ SensorIdle
    /\ MergeIdle /\ DecodeIdle /\ BusIdle
    /\ rCtrl \in CtrlWordSpace
    /\ rOut = NotRefreshed

\* initialize step 3: the refresh code and the full-frame rate read back
\* from CTRL (0x800D); and, for each refresh code, the control word with that
\* code written into the header's refresh field and the code initialize
\* reads back from it.
RefreshStep ==
    /\ ~rOut.done
    /\ LET rr == RefreshCode(rCtrl)
       IN  rOut' = [code |-> rr, hz |-> RefreshHz(rr), done |-> TRUE,
                    wr   |-> [c \in 0 .. 7 |-> SetRefreshField(rCtrl, c)],
                    back |-> [c \in 0 .. 7 |->
                                RefreshCode(SetRefreshField(rCtrl, c))]]
    /\ UNCHANGED << engineVars, sensorVars, mergeVars, decodeVars, busVars,
                    rCtrl >>

SpecRefresh == InitRefresh /\ [][RefreshStep]_vars

\* ----------------------------------------------------- I2cDevice, transport
\* Mutant of I2cDevice: the descriptor is not closed when the slave address
\* cannot be selected.
I2cDevice_KeepsDescriptor(openOk, ioctlOk) ==
    IF ~openOk THEN [fd |-> -1, kopen |-> 0, how |-> "open_failed"]
    ELSE IF ~ioctlOk THEN [fd |-> 3, kopen |-> 1, how |-> "ioctl_failed"]
    ELSE [fd |-> 3, kopen |-> 1, how |-> "ok"]

\* The constructor: fd_ after it, and the number of descriptors the process
\* still holds for the device (open() gives descriptor 3).
I2cDevice(openOk, ioctlOk) ==
    IF ~openOk THEN [fd |-> -1, kopen |-> 0, how |-> "open_failed"]
    ELSE IF ~ioctlOk THEN [fd |-> -1, kopen |-> 0, how |-> "ioctl_failed"]
    ELSE [fd |-> 3, kopen |-> 1, how |-> "ok"]

isOpen(fd) == fd >= 0

\* static_cast<uint8_t>(x)
U8(x) == x % 256
\* assignment to a uint16_t
U16(x) == x % 65536

\* Mutant of writeBytes: the write is attempted whatever fd_ is.
writeBytes_Unguarded(fd, data, ioOk) ==
    [ret |-> ioOk, io |-> << [sys |-> "write", bytes |-> data] >>]

\* writeBytes: ioOk says that write() took all the bytes.  io lists the
\* system calls made on the descriptor.
writeBytes(fd, data, ioOk) ==
    IF fd < 0 THEN [ret |-> FALSE, io |-> << >>]
    ELSE [ret |-> ioOk, io |-> << [sys |-> "write", bytes |-> data] >>]

\* readBytes: rx is what the device sends; buf is the caller's buffer after
\* the call (left as it was when nothing was read).
readBytes(fd, buf, ioOk, rx) ==
    IF fd < 0 THEN [ret |-> FALSE, io |-> << >>, buf |-> buf]
    ELSE [ret |-> ioOk, io |-> << [sys |-> "read", bytes |-> << >>] >>,
          buf |-> IF ioOk THEN rx ELSE buf]

\* writeThenRead: one I2C_RDWR ioctl carrying both messages.
writeThenRead(fd, tx, buf, ioOk, rx) ==
    IF fd < 0 THEN [ret |-> FALSE, io |-> << >>, buf |-> buf]
    ELSE [ret |-> ioOk, io |-> << [sys |-> "rdwr", bytes |-> tx] >>,
          buf |-> IF ioOk THEN rx ELSE buf]

\* Mutant of readRegister16: the value is decoded low byte first.
readRegister16_LittleEndian(fd, reg, value, ioOk1, ioOk2, rx) ==
    LET tx == << U8(reg \div 256), U8(reg % 256) >>
        w  == writeBytes(fd, tx, ioOk1)
        r  == readBytes(fd, << 0, 0 >>, ioOk2, rx)
    IN  IF ~w.ret THEN [ret |-> FALSE, io |-> w.io, value |-> value]
        ELSE IF ~r.ret THEN [ret |-> FALSE, io |-> w.io \o r.io, value |-> value]
        ELSE [ret |-> TRUE, io |-> w.io \o r.io,
              value |-> U16(r.buf[2] * 256 + r.buf[1])]

\* readRegister16(reg, value): value is the caller's variable before the
\* call, the result's value what it holds after.
readRegister16(fd, reg, value, ioOk1, ioOk2, rx) ==
    LET tx == << U8(reg \div 256), U8(reg % 256) >>
        w  == writeBytes(fd, tx, ioOk1)
        r  == readBytes(fd, << 0, 0 >>, ioOk2, rx)
    IN  IF ~w.ret THEN [ret |-> FALSE, io |-> w.io, value |-> value]
        ELSE IF ~r.ret THEN [ret |-> FALSE, io |-> w.io \o r.io, value |-> value]
        ELSE [ret |-> TRUE, io |-> w.io \o r.io,
              value |-> U16(r.buf[1] * 256 + r.buf[2])]

writeRegister16(fd, reg, value, ioOk) ==
    writeBytes(fd, << U8(reg \div 256), U8(reg % 256),
                      U8(value \div 256), U8(value % 256) >>, ioOk)

\* MLX90640_I2CRead(addr, reg, len, out) through the device g_dev points to
\* (fd its descriptor); ret 0 or -1; out is the caller's array before the
\* call, the result's out what it holds after.
MLX90640_I2CRead(fd, reg, len, out, ioOk, rx) ==
    IF ~isOpen(fd) THEN [ret |-> -1, io |-> << >>, out |-> out]
    ELSE LET tx == << U8(reg \div 256), U8(reg % 256) >>
             r  == writeThenRead(fd, tx, [i \in 1 .. 2 * len |-> 0], ioOk, rx)
         IN  IF ~r.ret THEN [ret |-> -1, io |-> r.io, out |-> out]
             ELSE [ret |-> 0, io |-> r.io,
                   out |-> [i \in 1 .. len |->
                              U16(r.buf[2 * i - 1] * 256 + r.buf[2 * i])]]

\* MLX90640_I2CWrite(addr, reg, val)
MLX90640_I2CWrite(fd, reg, val, ioOk) ==
    IF ~isOpen(fd) THEN [ret |-> -1, io |-> << >>]
    ELSE LET w == writeBytes(fd, << U8(reg \div 256), U8(reg % 256),
                                    U8(val \div 256), U8(val % 256) >>, ioOk)
         IN  [ret |-> IF w.ret THEN 0 ELSE -1, io |-> w.io]

\* Registers, values and device answers the bus harness calls with.
BusRegs == {32768, 32781}
BusValues == {0, 9, 43981}
BusAnswers == { << 0, 9 >>, << 25, 1 >> }
BusOps == {"writeBytes", "readBytes", "writeThenRead", "readRegister16",
           "writeRegister16"}

\* One call on the device: the operation and its register, what it returned,
\* the system calls it made, and the caller's output variable before and
\* after.
BusCallResult(op, fd, reg, value, ioOk1, ioOk2, rx) ==
    LET tx == << U8(reg \div 256), U8(reg % 256) >>
        r  == CASE op = "writeBytes" ->
                     writeBytes(fd, tx, ioOk1) @@ [value |-> value]
                [] op = "readBytes" ->
                     [value |-> value] @@ readBytes(fd, << 0, 0 >>, ioOk1, rx)
                [] op = "writeThenRead" ->
                     [value |-> value]
                        @@ writeThenRead(fd, tx, << 0, 0 >>, ioOk1, rx)
                [] op = "readRegister16" ->
                     readRegister16(fd, reg, value, ioOk1, ioOk2, rx)
                [] OTHER ->
                     writeRegister16(fd, reg, value, ioOk1) @@ [value |-> value]
    IN  [op |-> op, reg |-> reg, ret |-> r.ret, io |-> r.io, prior |-> value,
         value |-> r.value]

InitBus ==
    /\ busOpen = TRUE
    /\ IdleLocals /\ SensorIdle
    /\ MergeIdle /\ DecodeIdle /\ RefreshIdle
    /\ BusIdle

\* I2cDevice dev(path, address) with either outcome of open() and ioctl().
BusConstruct ==
    /\ bDev.how = "none"
    /\ \E openOk, ioctlOk \in BOOLEAN : bDev' = I2cDevice(openOk, ioctlOk)
    /\ UNCHANGED << engineVars, sensorVars, mergeVars, decodeVars, refreshVars,
                    bCall, wIn, wOut >>

\* A call of one of the five operations on the constructed device.
BusCall ==
    /\ bDev.how # "none"
    /\ \E op \in BusOps, reg \in BusRegs, value \in BusValues,
          ioOk1, ioOk2 \in BOOLEAN, rx \in BusAnswers :
          bCall' = BusCallResult(op, bDev.fd, reg, value, ioOk1, ioOk2, rx)
    /\ UNCHANGED << engineVars, sensorVars, mergeVars, decodeVars, refreshVars,
                    bDev, wIn, wOut >>

SpecBus == InitBus /\ [][BusConstruct \/ BusCall]_vars

\* Registers the wire harness writes and reads: CTRL1 and the RAM base.
WireRegs == {32781, 1024}
WireValues == 0 .. 65535

InitWire ==
    /\ busOpen = TRUE
    /\ IdleLocals /\ SensorIdle
    /\ MergeIdle /\ DecodeIdle /\ RefreshIdle
    /\ bDev = NoDevice /\ bCall = NoCall
    /\ wIn \in [reg : WireRegs, val : WireValues]
    /\ wOut = NotWired

\* The value is written to the register through both paths on an open
\* device; the device then answers a read of the register with the two data
\* bytes it was sent, and the answer is decoded through both paths, into
\* variables that held something else.
WireStep ==
    /\ ~wOut.done
    /\ LET fd    == I2cDevice(TRUE, TRUE).fd
           w16   == writeRegister16(fd, wIn.reg, wIn.val, TRUE)
           wT    == MLX90640_I2CWrite(fd, wIn.reg, wIn.val, TRUE)
           sent  == w16.io[1].bytes
           rx    == << sent[3], sent[4] >>
           other == U16(wIn.val + 1)
           r16   == readRegister16(fd, wIn.reg, other, TRUE, TRUE, rx)
           rT    == MLX90640_I2CRead(fd, wIn.reg, 1, << other >>, TRUE, rx)
       IN  wOut' = [done |-> TRUE,
                    w16 |-> w16.io, wT |-> wT.io,
                    rx |-> rx,
                    r16 |-> r16.value, rT |-> rT.out[1],
                    ok |-> (w16.ret /\ wT.ret = 0 /\ r16.ret /\ rT.ret = 0)]
    /\ UNCHANGED << engineVars, sensorVars, mergeVars, decodeVars, refreshVars,
                    bDev, bCall, wIn >>

SpecWire == InitWire /\ [][WireStep]_vars

\* ------------------------------------------------- engine against a sensor
\* readFrame called over and over by the timer of main.cpp, on a bus
\* that never fails, against a sensor that runs on its own: it publishes
\* subpages alternately and raises NEW_DATA_READY, which stays up until the
\* engine writes 0 to STATUS.

\* The word a read of STATUS (0x8000) returns.
SensorStatus == (IF sReady THEN NEW_DATA_READY ELSE 0) + sSub

\* The sensor finishes a measurement: the other subpage, flag raised.
SensorPublish ==
    /\ ~sReady
    /\ sReady' = TRUE
    /\ sSub' = 1 - sSub
    /\ sSeen' = FALSE
    /\ UNCHANGED << sErased, engineVars, harnessVars >>

\* A read of STATUS by the engine: a raised flag has now been seen.
SensorRead ==
    /\ sSeen' = (sSeen \/ sReady)
    /\ UNCHANGED << sReady, sSub, sErased >>

\* A write of 0 to STATUS by the engine: the flag drops; if it was up and no
\* read had returned it, the subpage it announced is lost.
SensorCleared ==
    /\ sReady' = FALSE
    /\ sSeen' = FALSE
    /\ sErased' = (sErased \/ (sReady /\ ~sSeen))
    /\ UNCHANGED sSub

\* The scene in front of the sensor, with a usable ambient reading.
LiveScene == [pix |-> "ramp", aux |-> 20]

\* The sensor raises the flag within the retry budget: the engine does not
\* get to make the last poll of a wait with the flag still down.
WithinBudget == sReady \/ waitPolls + 1 < MAX_RETRIES

\* main.cpp passes a fresh, empty vector to every readFrame.
LiveCall ==
    /\ ReadFrameEntry(EmptyVec)
    /\ UNCHANGED << harnessVars, sensorVars >>

LivePoll ==
    /\ WithinBudget
    /\ PollStatusStep(TRUE, SensorStatus)
    /\ SensorRead
    /\ UNCHANGED harnessVars

LiveMismatchClear ==
    MismatchClearStep /\ SensorCleared /\ UNCHANGED harnessVars

LiveCapStatusRead ==
    /\ CapStatusReadStep(TRUE, SensorStatus)
    /\ SensorRead
    /\ UNCHANGED harnessVars

LiveCapRamBurst ==
    CapRamBurstStep(TRUE, LiveScene) /\ UNCHANGED << harnessVars, sensorVars >>

LiveCapCtrlRead ==
    /\ \E ctrl1 \in CtrlWords : CapCtrlReadStep(TRUE, ctrl1)
    /\ UNCHANGED << harnessVars, sensorVars >>

LiveCapStatusClear ==
    CapStatusClearStep(TRUE) /\ SensorCleared /\ UNCHANGED harnessVars

LiveFirstCapturedClear ==
    FirstCapturedClearStep /\ SensorCleared /\ UNCHANGED harnessVars

LiveSecondCapturedMerge ==
    SecondCapturedMergeStep /\ SensorCleared /\ UNCHANGED harnessVars

\* The steps of the caller and of the engine.
LiveEngine ==
    \/ LiveCall
    \/ LivePoll
    \/ LiveMismatchClear
    \/ LiveCapStatusRead
    \/ LiveCapRamBurst
    \/ LiveCapCtrlRead
    \/ LiveCapStatusClear
    \/ LiveFirstCapturedClear
    \/ LiveSecondCapturedMerge

LiveNext == LiveEngine \/ SensorPublish

InitLive ==
    /\ busOpen = TRUE
    /\ IdleLocals
    /\ HarnessIdle
    /\ sReady = FALSE /\ sSub \in {0, 1} /\ sSeen = FALSE /\ sErased = FALSE

\* The engine and its caller never stop (the timer fires again, every bus
\* call returns), and the sensor keeps measuring.
SpecLive ==
    InitLive /\ [][LiveNext]_vars /\ WF_vars(LiveEngine) /\ WF_vars(SensorPublish)


\* ---------------------------------------------------------------- claims
\* What the last status poll of the current wait showed.
InCall == pc \notin {"idle", "returned", "init_returned"}
Polled == InCall /\ waitPolls > 0
PolledReady == Polled /\ pollOk /\ status % 16 >= 8
PolledValid == PolledReady /\ status % 8 \in {0, 1}
LastOp == IF Len(busLog) = 0 THEN "none" ELSE busLog[Len(busLog)]

\* C1: fail-fast on subpage mismatch.  Right after a status poll that shows
\* newDataReady with a valid subpage other than the one sought, readFrame is
\* at its wrong-subframe exit with no transaction issued since that poll; it
\* then returns false with the poll followed only by the status clear of
\* that exit, so the wrong subpage is neither burst-read nor merged.
C1_FailFastOnMismatch ==
    /\ (PolledValid /\ status % 8 # seekFrame) =>
          (pc = "clr_mismatch" /\ LastOp = "poll")
    /\ pc = "clr_mismatch" => (LastOp = "poll" /\ subFrame # seekFrame)
    /\ (pc = "returned" /\ exitPath = "mismatch") =>
          /\ result = FALSE
          /\ frameData = frameIn
          /\ Len(busLog) >= 2
          /\ busLog[Len(busLog) - 1] = "poll"
          /\ LastOp = "frame_clear"

\* C1 witness: waiting for subpage 1, the poll showed subpage 0 ready.
C1_Witness ==
    /\ pc = "clr_mismatch" /\ seekFrame = 1 /\ status = 8
    /\ nBursts = 1

\* C2: end-to-end success.  A readFrame whose two captures succeeded and that
\* has a finite ambient reading returns true with a frame of exactly
\* WIDTH*HEIGHT values, pixel (row, col) holding the converted value of the
\* first capture when (row+col) is even and of the second when it is odd;
\* with both ambient readings finite the ambient used is their average.
C2_EndToEnd ==
    (pc = "returned" /\ exitPath = "merge"
        /\ (MLX90640_GetTa(fA).fin \/ MLX90640_GetTa(fB).fin)) =>
       /\ result = TRUE
       /\ DOMAIN frameData = 0 .. 767
       /\ VecSize(frameData) = WIDTH * HEIGHT
       /\ \A row \in 0 .. HEIGHT - 1, col \in 0 .. WIDTH - 1 :
             LET i == row * WIDTH + col
             IN  frameData[i] =
                    IF (row + col) % 2 = 0
                    THEN MLX90640_CalculateTo(fA, Ta)[i]
                    ELSE MLX90640_CalculateTo(fB, Ta)[i]
       /\ (MLX90640_GetTa(fA).fin /\ MLX90640_GetTa(fB).fin) =>
             /\ Ta.fin
             /\ 2 * Ta.val = MLX90640_GetTa(fA).val + MLX90640_GetTa(fB).val

\* C2 witness: ambient readings 20 and 22, raw 100 converted to 30 uniformly.
C2_Witness ==
    /\ pc = "returned" /\ result = TRUE
    /\ MLX90640_GetTa(fA) = Finite(20) /\ MLX90640_GetTa(fB) = Finite(22)
    /\ Ta = Finite(21)
    /\ \A i \in 0 .. PIXELS - 1 : fA[i] = 100 /\ fB[i] = 100 /\ frameData[i] = 30

\* C3: chess merge selection.  With {a, b} = {0, 1}, the merged frame has
\* WIDTH*HEIGHT elements and pixel (row, col), at index row*WIDTH+col, holds
\* subframe A's value at that index when a = (row+col) & 1 and subframe B's
\* value at that index otherwise.
C3_ChessMerge ==
    (mDone /\ {mA, mB} = {0, 1}) =>
       /\ DOMAIN mOut = 0 .. WIDTH * HEIGHT - 1
       /\ \A row \in 0 .. HEIGHT - 1, col \in 0 .. WIDTH - 1 :
             LET i == row * WIDTH + col
                 p == (row + col) % 2
             IN  mOut[i] = IF mA = p THEN mToA[i] ELSE mToB[i]

\* C3 witness: A is subpage 1, B is subpage 0, and the result interleaves two
\* different ramps.
C3_Witness ==
    /\ mDone /\ mA = 1 /\ mB = 0
    /\ mToA = Ramp(0) /\ mToB = Ramp(1000)
    /\ mOut[0] = 1000 /\ mOut[1] = 1 /\ mOut[WIDTH] = WIDTH

\* C4: a bus failure on a status read aborts the acquisition: once the last
\* status read has failed, no step of readFrame issues another status poll.
C4_BusErrorAborts ==
    [][ (Polled /\ ~pollOk) => busLog' # Append(busLog, "poll") ]_vars

\* C5: an invalid status (newDataReady with bits [2:0] outside {0,1}) is not
\* retried: once the last status read showed it, no step of readFrame issues
\* another status poll.
C5_InvalidStatusNotRetried ==
    [][ (PolledReady /\ status % 8 \notin {0, 1}) =>
            busLog' # Append(busLog, "poll") ]_vars

\* Every poll of the current wait succeeded and showed not ready.
CleanWait == Polled /\ cleanBefore /\ pollOk /\ status % 16 < 8

\* C6: timeout after exactly maxRetries status reads.  While every status
\* read succeeds and shows not ready, the wait for a subpage is still polling
\* before MAX_RETRIES reads and has ended in the timeout exit at MAX_RETRIES
\* reads, never later.
C6_TimeoutAfterMaxRetries ==
    CleanWait =>
       /\ waitPolls <= MAX_RETRIES
       /\ waitPolls < MAX_RETRIES => pc = "poll"
       /\ waitPolls = MAX_RETRIES => pc = "clr_timeout"

\* C7: one readFrame performs at most 2 * maxRetries status polls across its
\* two subpage waits.
C7_PollBudget == nPolls <= 2 * MAX_RETRIES

\* C8: exact poll count on success.  If the first k status reads of a wait
\* (0 <= k < MAX_RETRIES) succeeded and showed not ready, the wait is still
\* polling after them, and if read k+1 shows newDataReady with the subpage
\* sought, the wait is over right after that read, with that subpage and
\* readFrame at the capture.
C8_ExactPollCount ==
    /\ (CleanWait /\ waitPolls < MAX_RETRIES) => pc = "poll"
    /\ (PolledValid /\ cleanBefore /\ waitPolls <= MAX_RETRIES
           /\ status % 8 = seekFrame) =>
          /\ pc = "cap_status"
          /\ LastOp = "poll"
          /\ got = TRUE /\ subFrame = seekFrame

\* C8 witness: MAX_RETRIES - 1 not-ready reads, then subpage 1 ready.
C8_Witness ==
    /\ pc = "cap_status" /\ seekFrame = 1 /\ cleanBefore
    /\ waitPolls = MAX_RETRIES /\ status = 9

\* C9: status decoding.  ready iff bit 3; with bit 3 set, bits [2:0] in
\* {0,1} are the decoded subpage and bits [2:0] in 2..7 are the invalid
\* status; with bit 3 clear the word is not ready whatever bits [2:0] hold.
C9_StatusDecode ==
    dOut.step # "none" =>
       LET bit3 == dStatus % 16 >= 8
           low  == dStatus - 8 * (dStatus \div 8)
       IN  /\ dOut.ready = bit3
           /\ (bit3 /\ low \in {0, 1}) =>
                 (dOut.subpage = low /\ ~dOut.invalid /\ dOut.step = "ready")
           /\ (bit3 /\ low \in 2 .. 7) =>
                 (dOut.invalid /\ dOut.step = "fatal")
           /\ ~bit3 => (~dOut.invalid /\ dOut.step = "again")

\* C9 witness: a word with high bits set, bit 3 set and reserved code 4.
C9_Witness == dOut.step = "fatal" /\ dStatus = 65532

\* C10: stale-status guard.  readSubPage issues the RAM burst, the control
\* read and its status clear only with a latched status whose subpage equals
\* the expected one, each burst directly after the one status read; when the
\* latched subpage differs, readSubPage has failed with the status read as
\* its last transaction.
C10_StaleStatusGuard ==
    /\ pc \in {"cap_ram", "cap_ctrl", "cap_clear"} => status_first % 8 = subFrame
    /\ \A k \in 1 .. Len(busLog) :
          /\ busLog[k] = "ram_burst" => (k > 1 /\ busLog[k - 1] = "cap_status")
          /\ busLog[k] = "ctrl_read" => (k > 1 /\ busLog[k - 1] = "ram_burst")
          /\ busLog[k] = "cap_clear" => (k > 1 /\ busLog[k - 1] = "ctrl_read")
    /\ (InCall /\ LastOp \in {"cap_status", "ram_burst", "ctrl_read", "cap_clear"}
           /\ status_first % 8 # subFrame) =>
          (pc = "clr_capfail" /\ LastOp = "cap_status")

\* C10 witness: subpage 0 was polled, the status latched at entry says 1.
C10_Witness ==
    /\ pc = "clr_capfail" /\ subFrame = 0 /\ status_first = 9
    /\ LastOp = "cap_status"

\* Writes to the sensor issued by the current readFrame (all to STATUS).
ClearOps == {"cap_clear", "frame_clear"}
StatusReads == {"poll", "cap_status"}
nWrites == Count(busLog, "cap_clear") + Count(busLog, "frame_clear")

\* C11: a failed status-clear write at the end of a capture does not fail the
\* capture: whenever the last transaction of a running readFrame is
\* readSubPage's clear write (so its status read, RAM burst and control read
\* succeeded), readSubPage has returned true and readFrame goes on with the
\* data.
C11_ClearFailureTolerated ==
    (InCall /\ LastOp = "cap_clear") => pc = "post_clear"

\* C12: a successful readFrame has issued exactly two register writes, the
\* status clear of each capture, each directly after that capture's reads.
C12_TwoWritesPerFrame ==
    (pc = "returned" /\ result = TRUE) =>
       /\ nWrites = 2
       /\ \A k \in 1 .. Len(busLog) :
             busLog[k] \in ClearOps => (k > 1 /\ busLog[k - 1] = "ctrl_read")

\* C13: recovery clear.  When readFrame has returned after polling the
\* status register, by whichever exit, a status-clear write was attempted
\* after the last status read of the call.
C13_RecoveryClear ==
    (pc = "returned" /\ nPolls > 0) =>
       /\ exitPath \in {"timeout", "mismatch", "capture", "bad_ta", "merge"}
       /\ \E k \in 1 .. Len(busLog) :
             /\ busLog[k] \in ClearOps
             /\ \A j \in k + 1 .. Len(busLog) : busLog[j] \notin StatusReads

\* C13 witness: the RAM burst of the second capture failed and readFrame
\* returned through the clear of its failed-capture exit.
C13_Witness ==
    /\ pc = "returned" /\ exitPath = "capture" /\ nBursts = 2
    /\ busLog[Len(busLog) - 1] = "ram_burst"
    /\ LastOp = "frame_clear"

\* C14: ambient combination.  After the two captures, the ambient used for
\* the conversion is the average of the two readings when both are finite
\* and the finite one when exactly one is; the frame returned is converted
\* at that ambient.  When neither is finite readFrame returns false from its
\* bad-Ta exit, which precedes the conversions, and the caller's vector is
\* as it was passed in.
C14_AmbientCombination ==
    (pc = "returned" /\ exitPath \in {"merge", "bad_ta"}) =>
       LET TaA == MLX90640_GetTa(fA)
           TaB == MLX90640_GetTa(fB)
           converted ==
              /\ exitPath = "merge" /\ result = TRUE
              /\ \A i \in 0 .. PIXELS - 1 :
                    frameData[i] =
                       IF ((i \div WIDTH) + (i % WIDTH)) % 2 = 0
                       THEN MLX90640_CalculateTo(fA, Ta)[i]
                       ELSE MLX90640_CalculateTo(fB, Ta)[i]
       IN  /\ (TaA.fin /\ TaB.fin) =>
                 (Ta.fin /\ 2 * Ta.val = TaA.val + TaB.val /\ converted)
           /\ (TaA.fin /\ ~TaB.fin) => (Ta = TaA /\ converted)
           /\ (~TaA.fin /\ TaB.fin) => (Ta = TaB /\ converted)
           /\ (~TaA.fin /\ ~TaB.fin) =>
                 /\ exitPath = "bad_ta" /\ result = FALSE
                 /\ frameData = frameIn

\* C14 witness: only the second capture has a finite ambient reading, 22,
\* and the frame is converted at 22.
C14_Witness ==
    /\ pc = "returned" /\ result = TRUE
    /\ ~MLX90640_GetTa(fA).fin /\ MLX90640_GetTa(fB) = Finite(22)
    /\ Ta = Finite(22)
    /\ frameData[1] = fB[1] - 91 + 22

\* C15: merge order-independence.  Merging X as subpage 0 with Y as subpage 1
\* gives the same frame as merging Y as subpage 1 with X as subpage 0 (the
\* call with the subframes and their indices exchanged), and when the two
\* subframes are equal the merged frame equals them at every index.
C15_MergeOrderIndependent ==
    mDone =>
       /\ {mA, mB} = {0, 1} => mOut = mOutSwap
       /\ mToA = mToB => mOut = mToA

\* C15 witness: two different ramps merged as (0, 1); the frame takes even
\* pixels from A and odd pixels from B, and so does the exchanged call.
C15_Witness ==
    /\ mDone /\ mA = 0 /\ mB = 1
    /\ mToA = Ramp(0) /\ mToB = Ramp(1000)
    /\ mOut[0] = 0 /\ mOut[1] = 1001
    /\ mOutSwap[0] = 0 /\ mOutSwap[1] = 1001

\* C16: the merge precondition is guarded.  Called with equal subpage
\* indices, or with an index outside {0, 1}, combineChessTemperatures
\* reports failure and assembles no frame.
C16_MergePreconditionGuarded ==
    (mDone /\ (mA = mB \/ mA \notin {0, 1} \/ mB \notin {0, 1})) =>
       (mRet = FALSE /\ mOut = EmptyVec)

\* C17: refresh-rate table.  The code extracted from any control word is in
\* 0..7; the rate read back for code c is 0.5 * 2^c Hz, refresh::TABLE holds
\* the same rate for c and a subpage period of 1 / (2 * rate); code 2 gives
\* 2 Hz and 0.25 s.
C17_RefreshTable ==
    rOut.done =>
       /\ rOut.code \in 0 .. 7
       /\ FracEq(rOut.hz, Frac(2 ^ rOut.code, 2))
       /\ LET info == TABLE[rOut.code + 1]
              hz   == info.hz_full_frame
              sec  == info.sec_subpage
          IN  /\ FracEq(hz, rOut.hz)
              /\ sec.n * 2 * hz.n = sec.d * hz.d
              /\ rOut.code = 2 => (FracEq(hz, Frac(2, 1)) /\ FracEq(sec, Frac(25, 100)))
       /\ Len(TABLE) = 8 /\ Len(lut) = 8

\* C17 witness: control word 0x1901 (chess mode, refresh code 2): 2 Hz.
C17_Witness ==
    /\ rOut.done /\ rCtrl = 6401 /\ rOut.code = 2
    /\ rOut.hz = Frac(2, 1)

\* C18: the retry budget is derived once per acquisition: the first bus
\* transaction of a readFrame that polls is the read of the control
\* register, and it is the only control read before the first poll.
C18_BudgetFromRefresh ==
    (InCall /\ nPolls > 0) => (busLog[1] = "ctrl_read" /\ busLog[2] = "poll")

\* The failure causes an acquisition result has to tell apart.
FailureCauses == {"BusError", "TimedOut", "InvalidStatus", "StaleStatus",
                  "BadAmbientTemperature"}

\* C19: failures are typed.  The value a failed readFrame returns is the
\* code of one of the failure causes under a one-to-one encoding of the
\* causes by values of readFrame's return type other than the success value
\* (so that two failures with different causes return different values).
C19_TypedFailures ==
    (pc = "returned" /\ exitPath \notin {"none", "merge"}) =>
       \E f \in [FailureCauses -> ReturnType \ {TRUE}] :
          /\ \A c1, c2 \in FailureCauses : c1 # c2 => f[c1] # f[c2]
          /\ \E c \in FailureCauses : result = f[c]

\* C20: overrun is advisory.  Two status words that differ only in bit 4
\* have the same outcome: the same step of the poll loop (ready, not ready,
\* invalid), the same decoded subpage, the same verdict of the capture's
\* guard for either expected subpage and the same status word in the buffer.
C20_OverrunAdvisory ==
    dOut.step # "none" =>
       /\ dOver.a = dOver.b
       /\ dOver.a.poll \in {"ready", "again", "fatal"}
       /\ (dOut.overrun /\ dStatus % 8 \in {0, 1}) =>
             (dOver.a.poll = "ready" /\ dOver.a.cap[dStatus % 8])

\* C20 witness: subpage 1 ready with the overrun bit: the poll succeeds and
\* the capture goes on, as for the word without the bit.
C20_Witness ==
    /\ dStatus = 25 /\ dOut.overrun /\ dOut.step = "ready"
    /\ dOver.b = StatusOutcome(9) /\ dOver.a.cap[1]

\* ---------------------------------------------------------------- C23
CaptureOrder == << "cap_status", "ram_burst", "ctrl_read", "cap_clear" >>
CaptureOps == {"cap_status", "ram_burst", "ctrl_read", "cap_clear"}

\* The operations of the capture in progress or last made: the log from its
\* last status latch on.
LastCapture ==
    LET ks == { k \in 1 .. Len(busLog) : busLog[k] = "cap_status" }
    IN  IF ks = {} THEN << >>
        ELSE LET k == CHOOSE x \in ks : \A y \in ks : y <= x
             IN  SubSeq(busLog, k, Len(busLog))

IsPrefix(s, t) == Len(s) <= Len(t) /\ s = SubSeq(t, 1, Len(s))

\* C23: a capture issues, in this order, one status read, one RAM burst, one
\* control read and one status-clear write: the n-th of them is always
\* preceded by the n-1 before it, and a capture that succeeded has issued
\* exactly the four.  A capture that failed stopped at the step that failed:
\* what it issued is a prefix of the order ending in that step, and no step of
\* a capture follows before the capture is left.
C23_CaptureStepOrder ==
    /\ \A k \in 1 .. Len(busLog) : \A n \in 1 .. 4 :
          busLog[k] = CaptureOrder[n] =>
             /\ k >= n
             /\ SubSeq(busLog, k - n + 1, k) = SubSeq(CaptureOrder, 1, n)
    /\ pc = "post_clear" => LastCapture = CaptureOrder
    /\ pc = "clr_capfail" =>
          /\ LastCapture # << >>
          /\ IsPrefix(LastCapture, CaptureOrder)
          /\ LastOp = LastCapture[Len(LastCapture)]
    /\ \A k \in 1 .. Len(busLog) - 1 :
          (busLog[k] \in CaptureOps /\ busLog[k + 1] \notin CaptureOps) =>
             busLog[k + 1] = "frame_clear"

\* A capture that failed at its control read: status read and burst issued,
\* no status clear of the capture.
C23_Witness ==
    /\ pc = "clr_capfail"
    /\ LastCapture = << "cap_status", "ram_burst", "ctrl_read" >>

\* ---------------------------------------------------------------- C24
BurstAt == { k \in 1 .. Len(busLog) : busLog[k] = "ram_burst" }

\* C24: a readFrame that returns true issued exactly two RAM bursts, the
\* first after latching a status of subpage 0 and the second after latching
\* one of subpage 1, with the first capture's status clear between the two;
\* pixels of even (row + col) come from the first capture and the others from
\* the second.
C24_PhaseAlternation ==
    (pc = "returned" /\ result = TRUE) =>
       /\ Cardinality(BurstAt) = 2
       /\ \E b1, b2 \in BurstAt :
             /\ b1 < b2
             /\ busLog[b1 - 1] = "cap_status" /\ busLog[b2 - 1] = "cap_status"
             /\ \E c \in b1 + 1 .. b2 - 1 : busLog[c] = "cap_clear"
       /\ fA[PIXELS + 64] = 0
       /\ fB[PIXELS + 64] = 1
       /\ \A i \in 0 .. PIXELS - 1 :
             LET row == i \div WIDTH
                 col == i % WIDTH
                 src == IF (row + col) % 2 = 0 THEN fA ELSE fB
             IN  frameData[i] = MLX90640_CalculateTo(src, Ta)[i]

\* A frame whose two captures saw different scenes.
C24_Witness ==
    /\ pc = "returned" /\ result = TRUE
    /\ fA[1] # fB[1]

\* ---------------------------------------------------------------- C27
\* C27: every bus transaction of initialize and readFrame goes to the bus the
\* reader was constructed with, whatever was done to the transport handle
\* between the reader's calls.
C27_SingleBus ==
    \A i \in 1 .. Len(busDst) : busDst[i] = ReaderBus

\* ---------------------------------------------------------------- C28
\* C28: a readFrame that returns false leaves the caller's vector as it was
\* passed in, and so does a call still in progress; one that returns true
\* leaves a vector of exactly PIXELS elements.  With the bus not open,
\* readFrame and initialize return false and have issued no transaction.
C28_OutputUntouchedOnFailure ==
    /\ (pc = "returned" /\ result = FALSE) => frameData = frameIn
    /\ InCall => frameData = frameIn
    /\ (pc = "returned" /\ result = TRUE) => DOMAIN frameData = 0 .. PIXELS - 1
    /\ (pc \in {"returned", "init_returned"} /\ ~busOpen) =>
          (result = FALSE /\ busLog = << >>)

\* readFrame gave up on a non-finite ambient temperature, after both
\* captures, with a caller's vector that was not empty.
C28_Witness ==
    /\ pc = "returned" /\ result = FALSE /\ exitPath = "bad_ta"
    /\ VecSize(frameIn) = 2

\* ---------------------------------------------------------------- C25
\* C25: the status-clear write that ends a capture is not followed by another
\* write to STATUS before the next status read, and no flag the sensor raised
\* is cleared before a read returned it.
C25_NoLostSubpage ==
    /\ \A k \in 1 .. Len(busLog) - 1 :
          busLog[k] = "cap_clear" => busLog[k + 1] \in StatusReads
    /\ ~sErased

\* ---------------------------------------------------------------- C26
\* C26: against the alternating sensor and a bus that never fails, a caller
\* that keeps calling readFrame eventually gets a frame.
C26_EventualFrame == <>(pc = "returned" /\ result = TRUE)

\* ---------------------------------------------------------------- C29
\* C29: for every refresh code c and every prior control word, writing c into
\* the field MASK / SHIFT leaves the bits outside the field as they were,
\* and the code initialize reads back from the written word is c.
C29_RefreshFieldRoundTrip ==
    rOut.done =>
       \A c \in 0 .. 7 :
          LET w == rOut.wr[c]
          IN  /\ w \in 0 .. 65535
              /\ w % (2 ^ SHIFT) = rCtrl % (2 ^ SHIFT)
              /\ w \div (8 * 2 ^ SHIFT) = rCtrl \div (8 * 2 ^ SHIFT)
              /\ rOut.back[c] = c

\* ---------------------------------------------------------------- C21
\* C21: an I2cDevice whose open() or slave-address ioctl() failed is closed
\* and holds no descriptor; on a closed device each of the five operations
\* returns false and makes no system call on the bus; a readRegister16 that
\* returns false leaves the caller's value as it was.
C21_ClosedHandle ==
    /\ bDev.how \in {"open_failed", "ioctl_failed"} =>
          (~isOpen(bDev.fd) /\ bDev.kopen = 0)
    /\ (bCall.op # "none" /\ ~isOpen(bDev.fd)) =>
          (bCall.ret = FALSE /\ bCall.io = << >>)
    /\ (bCall.op = "readRegister16" /\ bCall.ret = FALSE) =>
          bCall.value = bCall.prior

\* readRegister16 on a device whose slave address could not be selected,
\* with a caller's value that was not 0.
C21_Witness ==
    /\ bDev.how = "ioctl_failed"
    /\ bCall.op = "readRegister16" /\ bCall.ret = FALSE
    /\ bCall.prior = 43981

\* ---------------------------------------------------------------- C22
\* C22: writeRegister16 and MLX90640_I2CWrite both put exactly the bytes
\* reg >> 8, reg & 0xFF, value >> 8, value & 0xFF on the wire; readRegister16
\* and MLX90640_I2CRead decode the pair hi, lo as hi * 256 + lo; a value
\* written and read back through either path is the value.
C22_BigEndianWire ==
    wOut.done =>
       LET bytes == << wIn.reg \div 256, wIn.reg % 256,
                       wIn.val \div 256, wIn.val % 256 >>
       IN  /\ wOut.ok
           /\ wOut.w16 = << [sys |-> "write", bytes |-> bytes] >>
           /\ wOut.wT = << [sys |-> "write", bytes |-> bytes] >>
           /\ wOut.r16 = wOut.rx[1] * 256 + wOut.rx[2]
           /\ wOut.rT = wOut.rx[1] * 256 + wOut.rx[2]
           /\ wOut.r16 = wIn.val
           /\ wOut.rT = wIn.val

\* 0xABCD written to CTRL1 and read back.
C22_Witness ==
    /\ wOut.done /\ wIn.reg = 32781 /\ wIn.val = 43981
    /\ wOut.rx = << 171, 205 >>
    /\ wOut.r16 = 43981

TypeOK ==
    /\ pc \in {"idle", "poll", "clr_timeout", "clr_mismatch", "clr_capfail",
               "cap_status", "cap_ram", "cap_ctrl", "cap_clear", "post_clear",
               "returned", "init_returned"}
    /\ seekFrame \in {0, 1}
    /\ subFrame \in {-1, 0, 1}
    /\ tries \in 0 .. MAX_RETRIES - 1
    /\ wtries \in 0 .. MAX_RETRIES - 1

=============================================================================
